---- MODULE Spec2Model ----
(***************************************************************************)
(* Model of the two command-line scripts of MICA's scripts/ directory:     *)
(*   compare-blast-results.py      analyzeBlastOut(gold, comp)              *)
(*   convert-blastTab-to-blastXML.py   main(args)                           *)
(*                                                                         *)
(* A parsed result set is a Python dict from query id to a QueryResult,    *)
(* of which analyzeBlastOut reads only len(...); a result set is modelled  *)
(* as a function from a subset of QueryIds to that length.                 *)
(* The for loop over the key-set intersection visits the ids in the set's  *)
(* iteration order, which the program does not control: the loop picks any *)
(* id not yet visited.                                                     *)
(* Python floats: float(a)/b and the literals 0.1 and 0.2 are IEEE         *)
(* doubles.  The quotient is the double nearest to a/b and the literal is  *)
(* the double nearest to 1/10 (1/5); rounding is monotone, and for         *)
(* b < 2^50 no ratio a/b other than 1/10 itself rounds to the double of    *)
(* 1/10, so "float(a)/b > 0.1" is exactly "a/b > 1/10".  Floats are        *)
(* modelled as exact rationals <<numerator, denominator>> in lowest terms. *)
(***************************************************************************)
EXTENDS Integers, Sequences, FiniteSets, TLC

\* ---------------------------------------------------------------- bounds
QueryIds == {"Q1", "Q2"}
MaxHits == 10
MaxPathLen == 4
PathChars == {"a", ".", "/"}

VARIABLES
    \* compare-blast-results.py, analyzeBlastOut
    gold, comp, intersection, todo,
    totalMiss, totalGoldHits, perfectQueries, badQueries, veryBadQueries,
    printed, exc, excLine, pc,
    \* convert-blastTab-to-blastXML.py, main
    args, filenameRoot, filenameXML, converted, usage, cpc

cmpVars == <<gold, comp, intersection, todo, totalMiss, totalGoldHits,
             perfectQueries, badQueries, veryBadQueries, printed, exc,
             excLine, pc>>
cnvVars == <<args, filenameRoot, filenameXML, converted, usage, cpc>>
vars == <<cmpVars, cnvVars>>

\* ------------------------------------------------------- rational "floats"
RECURSIVE GCD(_, _)
GCD(a, b) == IF b = 0 THEN a ELSE GCD(b, a % b)

\* float(a) / b for a >= 0, b > 0
FloatDiv(a, b) == LET g == GCD(a, b) IN <<a \div g, b \div g>>

\* x > y on floats
FloatGT(x, y) == x[1] * y[2] > y[1] * x[2]

\* 1 - x
OneMinus(x) == <<x[2] - x[1], x[2]>>

Tenth == <<1, 10>>
Fifth == <<1, 5>>

\* ------------------------------------------------------------ result sets
ResultSets == UNION {[S -> 0..MaxHits] : S \in SUBSET QueryIds}

\* gold.viewkeys() & comp.viewkeys()
Intersection(g, c) == (DOMAIN g) \cap (DOMAIN c)

\* len(rs[qId])
HitCount(rs, qId) == rs[qId]

\* 1 - float(totalMiss)/totalGoldHits, for totalGoldHits # 0
OverallAccuracyNoComplement(tm, tg) == FloatDiv(tm, tg)
OverallAccuracy(tm, tg) == OneMinus(FloatDiv(tm, tg))

\* missFrac > 0.1 and missFrac > 0.2
IsBadInclusive(missFrac) == ~FloatGT(Tenth, missFrac)
IsBad(missFrac) == FloatGT(missFrac, Tenth)
IsVeryBad(missFrac) == FloatGT(missFrac, Fifth)

\* The local variables of analyzeBlastOut that the loop body updates, with
\* the exception (if any) that left the body.
Locals == [totalMiss |-> totalMiss, totalGoldHits |-> totalGoldHits,
           perfectQueries |-> perfectQueries, badQueries |-> badQueries,
           veryBadQueries |-> veryBadQueries, exc |-> exc, excLine |-> excLine]

Locals0 == [totalMiss |-> 0, totalGoldHits |-> 0, perfectQueries |-> 0,
            badQueries |-> 0, veryBadQueries |-> 0, exc |-> "none", excLine |-> 0]

\* One pass through the body of "for qId in intersection" (lines 28-41).
LoopBody(g, c, l, qId) ==
    LET goldHits == HitCount(g, qId)
        l29 == [l EXCEPT !.totalGoldHits = @ + goldHits]
        miss == HitCount(g, qId) - HitCount(c, qId)
    IN  IF ~(miss >= 0)
        THEN [l29 EXCEPT !.exc = "AssertionError", !.excLine = 32]
        ELSE LET l35 == [l29 EXCEPT !.totalMiss = @ + miss,
                                    !.perfectQueries = IF miss = 0 THEN @ + 1 ELSE @]
             IN  IF goldHits = 0
                 THEN [l35 EXCEPT !.exc = "ZeroDivisionError", !.excLine = 37]
                 ELSE LET missFrac == FloatDiv(miss, goldHits)
                      IN  [l35 EXCEPT
                             !.badQueries = IF IsBad(missFrac) THEN @ + 1 ELSE @,
                             !.veryBadQueries = IF IsVeryBad(missFrac) THEN @ + 1 ELSE @]

\* The whole loop for one visiting order (a sequence of the ids): the body
\* is applied id after id until an exception leaves the loop.
RECURSIVE RunLoop(_, _, _, _)
RunLoop(g, c, l, order) ==
    IF order = <<>> \/ l.exc # "none" THEN l
    ELSE RunLoop(g, c, LoopBody(g, c, l, Head(order)), Tail(order))

\* ------------------------------------------------- analyzeBlastOut: actions
CmpIdle ==
    /\ gold = <<>> /\ comp = <<>> /\ intersection = {} /\ todo = {}
    /\ totalMiss = 0 /\ totalGoldHits = 0 /\ perfectQueries = 0
    /\ badQueries = 0 /\ veryBadQueries = 0
    /\ printed = <<>> /\ exc = "none" /\ excLine = 0 /\ pc = "idle"

CnvIdle ==
    /\ args = <<>> /\ filenameRoot = <<>> /\ filenameXML = <<>>
    /\ converted = <<>> /\ usage = FALSE /\ cpc = "idle"

Init ==
    /\ gold \in ResultSets
    /\ comp \in ResultSets
    /\ intersection = {} /\ todo = {}
    /\ totalMiss = 0 /\ totalGoldHits = 0 /\ perfectQueries = 0
    /\ badQueries = 0 /\ veryBadQueries = 0
    /\ printed = <<>> /\ exc = "none" /\ excLine = 0
    /\ pc = "L20"
    /\ CnvIdle

\* lines 20-26
Enter ==
    /\ pc = "L20"
    /\ intersection' = Intersection(gold, comp)
    /\ todo' = Intersection(gold, comp)
    /\ totalMiss' = 0 /\ totalGoldHits' = 0 /\ perfectQueries' = 0
    /\ badQueries' = 0 /\ veryBadQueries' = 0
    /\ pc' = "L27"
    /\ UNCHANGED <<gold, comp, printed, exc, excLine, cnvVars>>

\* lines 27-41, one iteration
Iterate ==
    /\ pc = "L27"
    /\ \E qId \in todo :
         LET l == LoopBody(gold, comp, Locals, qId) IN
         /\ totalMiss' = l.totalMiss
         /\ totalGoldHits' = l.totalGoldHits
         /\ perfectQueries' = l.perfectQueries
         /\ badQueries' = l.badQueries
         /\ veryBadQueries' = l.veryBadQueries
         /\ exc' = l.exc
         /\ excLine' = l.excLine
         /\ todo' = todo \ {qId}
         /\ pc' = IF l.exc = "none" THEN "L27" ELSE "done"
    /\ UNCHANGED <<gold, comp, intersection, printed, cnvVars>>

\* line 27, the iterator is exhausted
LoopExit ==
    /\ pc = "L27"
    /\ todo = {}
    /\ pc' = "L43"
    /\ UNCHANGED <<gold, comp, intersection, todo, totalMiss, totalGoldHits,
                   perfectQueries, badQueries, veryBadQueries, printed, exc,
                   excLine, cnvVars>>

PrintLine(at, label, value, next) ==
    /\ pc = at
    /\ printed' = Append(printed, <<label, value>>)
    /\ pc' = next
    /\ UNCHANGED <<gold, comp, intersection, todo, totalMiss, totalGoldHits,
                   perfectQueries, badQueries, veryBadQueries, exc, excLine,
                   cnvVars>>

\* line 43
PrintQueries == PrintLine("L43", "Queries", Cardinality(intersection), "L44")
\* line 44
PrintMisses == PrintLine("L44", "Misses", totalMiss, "L45")
\* line 45
PrintTotalHits == PrintLine("L45", "Total hits in gold-standard", totalGoldHits, "L46")

\* line 46
PrintAccuracy ==
    /\ pc = "L46"
    /\ totalGoldHits # 0
    /\ PrintLine("L46", "Overall accuracy", OverallAccuracy(totalMiss, totalGoldHits), "L47")

\* line 46, float(totalMiss)/0
PrintAccuracyRaises ==
    /\ pc = "L46"
    /\ totalGoldHits = 0
    /\ exc' = "ZeroDivisionError"
    /\ excLine' = 46
    /\ pc' = "done"
    /\ UNCHANGED <<gold, comp, intersection, todo, totalMiss, totalGoldHits,
                   perfectQueries, badQueries, veryBadQueries, printed, cnvVars>>

\* line 47
PrintPerfect == PrintLine("L47", "Queries with perfect accuracy", perfectQueries, "L48")
\* line 48
PrintAbove90 == PrintLine("L48", "Queries with greater than 90% of hits",
                          Cardinality(intersection) - badQueries, "L49")
\* line 49
PrintAbove80 == PrintLine("L49", "Queries with greater than 80% of hits",
                          Cardinality(intersection) - veryBadQueries, "done")

Next ==
    \/ Enter
    \/ Iterate
    \/ LoopExit
    \/ PrintQueries
    \/ PrintMisses
    \/ PrintTotalHits
    \/ PrintAccuracy
    \/ PrintAccuracyRaises
    \/ PrintPerfect
    \/ PrintAbove90
    \/ PrintAbove80

Spec == Init /\ [][Next]_vars

\* ------------------------------------- convert-blastTab-to-blastXML.py: main
\* A path is a sequence of characters.
RECURSIVE SeqsUpTo(_)
SeqsUpTo(n) ==
    IF n = 0 THEN {<<>>}
    ELSE LET shorter == SeqsUpTo(n - 1)
         IN  shorter \cup {Append(p, ch) : p \in {q \in shorter : Len(q) = n - 1},
                                           ch \in PathChars}

Paths == SeqsUpTo(MaxPathLen)
OutPaths == {p \in Paths : Len(p) <= 1}
ScriptName == <<"c">>
XmlSuffix == <<".", "x", "m", "l">>

\* s.find(ch) + 1: the first position of ch in s, 0 when there is none
FirstIndex(s, ch) ==
    IF \E i \in 1..Len(s) : s[i] = ch
    THEN CHOOSE i \in 1..Len(s) : s[i] = ch /\ \A j \in 1..(i - 1) : s[j] # ch
    ELSE 0

\* s.split(sep), for a one-character sep
RECURSIVE Split(_, _)
Split(s, sep) ==
    LET i == FirstIndex(s, sep)
    IN  IF i = 0 THEN <<s>>
        ELSE <<SubSeq(s, 1, i - 1)>> \o Split(SubSeq(s, i + 1, Len(s)), sep)

\* args[1].split(".")[0]
FilenameRoot(path) == Split(path, ".")[1]

InitConvert ==
    /\ CmpIdle
    /\ args \in {<<ScriptName>>}
                \cup {<<ScriptName, p>> : p \in Paths}
                \cup {<<ScriptName, p, o>> : p \in Paths, o \in OutPaths}
                \cup {<<ScriptName, p, o, o>> : p \in OutPaths, o \in OutPaths}
    /\ filenameRoot = <<>> /\ filenameXML = <<>>
    /\ converted = <<>> /\ usage = FALSE
    /\ cpc = "main"

\* lines 8-11
ConvertDefault ==
    /\ cpc = "main"
    /\ Len(args) = 2
    /\ filenameRoot' = FilenameRoot(args[2])
    /\ filenameXML' = FilenameRoot(args[2]) \o XmlSuffix
    /\ converted' = Append(converted, [inPath |-> args[2], inFormat |-> "blast-tab",
                                       outPath |-> filenameXML', outFormat |-> "blast-xml"])
    /\ cpc' = "done"
    /\ UNCHANGED <<args, usage, cmpVars>>

\* lines 13-16
ConvertExplicit ==
    /\ cpc = "main"
    /\ Len(args) = 3
    /\ filenameRoot' = FilenameRoot(args[2])
    /\ filenameXML' = args[3]
    /\ converted' = Append(converted, [inPath |-> args[2], inFormat |-> "blast-tab",
                                       outPath |-> filenameXML', outFormat |-> "blast-xml"])
    /\ cpc' = "done"
    /\ UNCHANGED <<args, usage, cmpVars>>

\* lines 18-19
Usage ==
    /\ cpc = "main"
    /\ Len(args) \notin {2, 3}
    /\ usage' = TRUE
    /\ cpc' = "done"
    /\ UNCHANGED <<args, filenameRoot, filenameXML, converted, cmpVars>>

NextConvert ==
    \/ ConvertDefault
    \/ ConvertExplicit
    \/ Usage

SpecConvert == InitConvert /\ [][NextConvert]_vars

\* =================================================================== claims
Done == pc = "done"
Failed == Done /\ exc # "none"
Succeeded == Done /\ exc = "none"

Scope == (DOMAIN gold) \cap (DOMAIN comp)
MissOf(q) == gold[q] - comp[q]

RECURSIVE SumOver(_, _)
SumOver(f, S) ==
    IF S = {} THEN 0
    ELSE LET x == CHOOSE x \in S : TRUE IN f[x] + SumOver(f, S \ {x})

SumGold == SumOver([q \in Scope |-> gold[q]], Scope)
SumMiss == SumOver([q \in Scope |-> MissOf(q)], Scope)

\* the value printed on the line with this label
Reported(label) == (CHOOSE i \in 1..Len(printed) : printed[i][1] = label)
HasLine(label) == \E i \in 1..Len(printed) : printed[i][1] = label
ReportedValue(label) == printed[Reported(label)][2]

ReportLabels == <<"Queries", "Misses", "Total hits in gold-standard",
                  "Overall accuracy", "Queries with perfect accuracy",
                  "Queries with greater than 90% of hits",
                  "Queries with greater than 80% of hits">>
FullReport == /\ Len(printed) = 7
              /\ \A i \in 1..7 : printed[i][1] = ReportLabels[i]

\* C1: whenever the two result sets share no query id, the run ends in an
\* error and not one report line is ever printed.
C1_NoOverlapNoReport ==
    Scope = {} => /\ printed = <<>>
                  /\ (Done => exc # "none")

\* C2: whenever some shared query has more candidate hits than gold hits, the
\* run ends in the failed assertion (candidate exceeds gold) with nothing
\* printed; and totalMiss is never negative.
C2_ExceedsAlwaysCaught ==
    /\ totalMiss >= 0
    /\ (Done /\ \E q \in Scope : comp[q] > gold[q])
         => (exc = "AssertionError" /\ printed = <<>>)

\* C3: a shared query with zero gold hits (and zero candidate hits) is
\* processed without error and counts as perfect and as passing both
\* thresholds; if no shared query exceeds gold and some shared query has gold
\* hits, the run produces the report.
C3_ZeroGoldCountsAsPerfect ==
    (Done /\ (\A q \in Scope : comp[q] <= gold[q]) /\ (\E q \in Scope : gold[q] > 0))
      => /\ Succeeded
         /\ FullReport
         /\ ReportedValue("Queries with perfect accuracy")
              = Cardinality({q \in Scope : MissOf(q) = 0})
         /\ ReportedValue("Queries with greater than 90% of hits")
              = Cardinality({q \in Scope : 10 * MissOf(q) <= gold[q]})
         /\ ReportedValue("Queries with greater than 80% of hits")
              = Cardinality({q \in Scope : 5 * MissOf(q) <= gold[q]})

\* C4: in a run that has raised an error, no report line has been printed.
C4_NoPartialReport == exc # "none" => printed = <<>>

\* C5: with a non-empty scope whose gold hit counts sum to 0 (and no shared
\* query exceeding gold, which is the other error), the run ends in the error
\* of the aggregate ratio totalMiss/totalGoldHits, with nothing printed; and
\* the Overall accuracy line is printed only with totalGoldHits > 0.
C5_EmptyGoldStandard ==
    /\ HasLine("Overall accuracy") => totalGoldHits > 0
    /\ (Done /\ Scope # {} /\ SumGold = 0 /\ \A q \in Scope : comp[q] <= gold[q])
         => (exc = "ZeroDivisionError" /\ excLine = 46 /\ printed = <<>>)

\* C6: a successful run reports the number of shared query ids, the sum of
\* their gold hit counts, the sum of their (gold - candidate) counts and
\* (totalGoldHits - totalMisses)/totalGoldHits; the four values are functions
\* of the shared queries' counts alone.
C6_ReportTotals ==
    Succeeded =>
      /\ FullReport
      /\ ReportedValue("Queries") = Cardinality(Scope)
      /\ ReportedValue("Total hits in gold-standard") = SumGold
      /\ ReportedValue("Misses") = SumMiss
      /\ SumGold > 0
      /\ ReportedValue("Overall accuracy") = FloatDiv(SumGold - SumMiss, SumGold)

\* a successful run with a query in only one result set and a shared query
\* that misses hits
C6_Witness ==
    /\ Succeeded
    /\ DOMAIN gold # DOMAIN comp
    /\ SumMiss > 0
    /\ SumMiss < SumGold

\* C7: a successful run reports the number of shared queries with no miss,
\* with 10*miss <= gold and with 5*miss <= gold (boundaries inclusive); gold
\* {Q1:10, Q2:4} against candidate {Q1:9, Q2:4} reports 2, 1, 14, 1, 2, 2.
C7_ThresholdCounts ==
    Succeeded =>
      /\ FullReport
      /\ ReportedValue("Queries with perfect accuracy")
           = Cardinality({q \in Scope : MissOf(q) = 0})
      /\ ReportedValue("Queries with greater than 90% of hits")
           = Cardinality({q \in Scope : 10 * MissOf(q) <= gold[q]})
      /\ ReportedValue("Queries with greater than 80% of hits")
           = Cardinality({q \in Scope : 5 * MissOf(q) <= gold[q]})
      /\ (gold = [q \in {"Q1", "Q2"} |-> IF q = "Q1" THEN 10 ELSE 4]
          /\ comp = [q \in {"Q1", "Q2"} |-> IF q = "Q1" THEN 9 ELSE 4])
           => /\ ReportedValue("Queries") = 2
              /\ ReportedValue("Misses") = 1
              /\ ReportedValue("Total hits in gold-standard") = 14
              /\ ReportedValue("Queries with perfect accuracy") = 1
              /\ ReportedValue("Queries with greater than 90% of hits") = 2
              /\ ReportedValue("Queries with greater than 80% of hits") = 2

\* the end-to-end scenario has run to its report: Q1 misses exactly 10%
C7_Witness ==
    /\ Succeeded
    /\ gold = [q \in {"Q1", "Q2"} |-> IF q = "Q1" THEN 10 ELSE 4]
    /\ comp = [q \in {"Q1", "Q2"} |-> IF q = "Q1" THEN 9 ELSE 4]

\* C8: comparing a result set with itself (one in which some query has hits,
\* so that neither the no-overlap nor the empty-gold error applies) yields a
\* report with accuracy 1.0, no misses and every query perfect.
C8_SelfComparisonPerfect ==
    (Done /\ gold = comp /\ \E q \in DOMAIN gold : gold[q] > 0)
      => /\ Succeeded
         /\ FullReport
         /\ ReportedValue("Overall accuracy") = <<1, 1>>
         /\ ReportedValue("Misses") = 0
         /\ ReportedValue("Queries with perfect accuracy") = ReportedValue("Queries")

\* C9: with only an input path, the converter's output path is the input path
\* without the part from the last '.' of its file name onward, plus ".xml";
\* with an output path given, that path is used unchanged.
LastIndex(s, ch) ==
    IF \E i \in 1..Len(s) : s[i] = ch
    THEN CHOOSE i \in 1..Len(s) : s[i] = ch /\ \A j \in (i + 1)..Len(s) : s[j] # ch
    ELSE 0
StripExtension(path) ==
    IF LastIndex(path, ".") > LastIndex(path, "/")
    THEN SubSeq(path, 1, LastIndex(path, ".") - 1)
    ELSE path
C9_OutputPath ==
    cpc = "done" =>
      /\ Len(args) = 2 =>
           /\ Len(converted) = 1
           /\ converted[1].inPath = args[2]
           /\ converted[1].outPath = StripExtension(args[2]) \o XmlSuffix
      /\ Len(args) = 3 =>
           /\ Len(converted) = 1
           /\ converted[1].inPath = args[2]
           /\ converted[1].outPath = args[3]

\* C10: the outcome of a finished run is the outcome of the loop under every
\* visiting order of the shared ids: the same exception, or the same totals
\* and counts (hence the same report).
Orders(S) == {o \in [1..Cardinality(S) -> S] : \A i, j \in 1..Cardinality(S) : o[i] = o[j] => i = j}
C10_OrderIndependent ==
    Done => \A o \in Orders(Scope) :
              LET l == RunLoop(gold, comp, Locals0, o)
              IN  IF l.exc # "none"
                  THEN exc = l.exc
                  ELSE /\ excLine \notin {32, 37}
                       /\ totalMiss = l.totalMiss
                       /\ totalGoldHits = l.totalGoldHits
                       /\ perfectQueries = l.perfectQueries
                       /\ badQueries = l.badQueries
                       /\ veryBadQueries = l.veryBadQueries

====
